---- MODULE Spec2Model ----
(***************************************************************************)
(* Model of scripts/fetch_data.py: the fetch -> normalize -> compile ->    *)
(* write pipeline of the High Yield Dashboard and its pure helpers.        *)
(*                                                                         *)
(* A number read from a CSV file is the decimal it is written as: the      *)
(* integer n stands for n / Scale.  The arithmetic on it is Python's float *)
(* arithmetic, computed exactly on the binary doubles.                     *)
(***************************************************************************)
EXTENDS Integers, Sequences, FiniteSets, TLC

VARIABLES
    pc,              \* position in main(), or in the function under study
    idx,             \* index of the ticker the current loop of main() is at
    run,             \* number of the current invocation of main()
    lastRun,         \* number of invocations the scheduler makes
    infoFile,        \* DATA_DIR/<ticker>_info.csv, per ticker
    histFile,        \* DATA_DIR/<ticker>_history.csv, per ticker
    infoResp,        \* what yf.Ticker(t).info does in a run, per ticker
    histResp,        \* what yf.Ticker(t).history() does in a run, per ticker
    reits,           \* local list reits of main()
    etfs,            \* local list etfs of main()
    reit_histories,  \* local dict reit_histories of main()
    etf_histories,   \* local dict etf_histories of main()
    outFiles,        \* the five JSON files of DATA_DIR
    prevOut,         \* the JSON files as the previous invocation left them
    arg,             \* input of the function under study
    ret              \* value returned by the function under study

vars == <<pc, idx, run, lastRun, infoFile, histFile, infoResp, histResp,
          reits, etfs, reit_histories, etf_histories, outFiles, prevOut,
          arg, ret>>

pipelineVars == <<idx, run, lastRun, infoFile, histFile, infoResp, histResp,
                  reits, etfs, reit_histories, etf_histories, outFiles,
                  prevOut>>

(***************************************************************************)
(* Bounds of the model.                                                    *)
(***************************************************************************)
NumReit == 2        \* how many of the REIT_TICKERS the pipeline runs over
NumEtf == 1         \* how many of the ETF_TICKERS the pipeline runs over
MaxRows == 3        \* rows of a raw history file
MaxDate == 3        \* distinct dates a raw history file draws from

(***************************************************************************)
(* Values: cells of a CSV file, fields of a dict, JSON values.             *)
(***************************************************************************)
Scale == 100 * 1000

Num(n) == [kind |-> "num", n |-> n, s |-> ""]
Str(s) == [kind |-> "str", n |-> 0, s |-> s]
NaN == [kind |-> "nan", n |-> 0, s |-> ""]
None == [kind |-> "none", n |-> 0, s |-> ""]
Absent == [kind |-> "absent", n |-> 0, s |-> ""]

\* bool(v) of Python
Truthy(v) ==
    CASE v.kind = "num" -> v.n # 0
      [] v.kind = "str" -> v.s # ""
      [] v.kind = "nan" -> TRUE
      [] OTHER -> FALSE

\* d.get(k, default)
Get(d, k, default) == IF k \in DOMAIN d THEN d[k] ELSE default

\* the dict holding the fields of raw that are present
MkDict(raw) == [k \in {f \in DOMAIN raw : raw[f] # Absent} |-> raw[k]]

(***************************************************************************)
(* Python floats.  A natural number of any size is the sequence of its     *)
(* limbs of 13 bits, least significant first, without leading zeros; a     *)
(* positive double is m * 2^e with a mantissa m of 53 bits.  The           *)
(* operations below round to nearest, ties to even, as IEEE 754 does.      *)
(***************************************************************************)
LimbBase == 2^13

RECURSIVE BigOf(_)
BigOf(n) == IF n = 0 THEN << >> ELSE <<n % LimbBase>> \o BigOf(n \div LimbBase)

RECURSIVE BigToInt(_)
BigToInt(a) == IF a = << >> THEN 0 ELSE Head(a) + LimbBase * BigToInt(Tail(a))

RECURSIVE Trim(_)
Trim(a) ==
    IF a = << >> THEN << >>
    ELSE IF a[Len(a)] = 0 THEN Trim(SubSeq(a, 1, Len(a) - 1))
    ELSE a

RECURSIVE BigMulSmall(_, _, _)
BigMulSmall(a, k, carry) ==
    IF a = << >> THEN BigOf(carry)
    ELSE LET p == Head(a) * k + carry
         IN  <<p % LimbBase>> \o BigMulSmall(Tail(a), k, p \div LimbBase)

\* quotient (untrimmed) and remainder of a by the small number d
RECURSIVE BigDivSmall(_, _)
BigDivSmall(a, d) ==
    IF a = << >> THEN [q |-> << >>, r |-> 0]
    ELSE LET hi == BigDivSmall(Tail(a), d)
             cur == hi.r * LimbBase + Head(a)
         IN  [q |-> <<cur \div d>> \o hi.q, r |-> cur % d]

BigShlLimbs(a, k) == IF a = << >> THEN << >> ELSE [i \in 1..k |-> 0] \o a

RECURSIVE IntBitLen(_)
IntBitLen(x) == IF x = 0 THEN 0 ELSE 1 + IntBitLen(x \div 2)

BigBitLen(a) ==
    IF a = << >> THEN 0 ELSE 13 * (Len(a) - 1) + IntBitLen(a[Len(a)])

BigIsOdd(a) == a # << >> /\ a[1] % 2 = 1

\* a shifted right by t bits, and whether a one bit was shifted out
BigShr(a, t) ==
    LET k == IF t \div 13 < Len(a) THEN t \div 13 ELSE Len(a)
        d == BigDivSmall(SubSeq(a, k + 1, Len(a)), 2^(t % 13))
    IN  [q |-> Trim(d.q),
         sticky |-> d.r # 0 \/ \E i \in 1..k : a[i] # 0]

\* a / 2^t rounded to the nearest integer, ties to even; sticky: the value
\* lies a little above a
RoundShr(a, t, sticky) ==
    IF t = 0 THEN a
    ELSE LET low == BigShr(a, t - 1)
             q == BigShr(low.q, 1).q
             up == BigIsOdd(low.q) /\ (low.sticky \/ sticky \/ BigIsOdd(q))
         IN  IF up THEN BigMulSmall(q, 1, 1) ELSE q

\* the double nearest to X * 2^e, X of at least 53 bits
Normalize(X, e, sticky) ==
    LET t == BigBitLen(X) - 53
        m == RoundShr(X, t, sticky)
    IN  IF BigBitLen(m) > 53
        THEN [m |-> BigShr(m, 1).q, e |-> e + t + 1]
        ELSE [m |-> m, e |-> e + t]

\* float(text) of the decimal n / Scale, n > 0
ToDouble(n) ==
    LET d1 == BigDivSmall(BigShlLimbs(BigOf(n), 6), 1000)
        d2 == BigDivSmall(Trim(d1.q), 100)
    IN  Normalize(Trim(d2.q), -(6 * 13), d1.r # 0 \/ d2.r # 0)

\* x / 100
FDiv100(x) ==
    LET d == BigDivSmall(BigShlLimbs(x.m, 1), 100)
    IN  Normalize(Trim(d.q), x.e - 13, d.r # 0)

\* x * 100
FMul100(x) == Normalize(BigMulSmall(x.m, 100, 0), x.e, FALSE)

\* round(x, 2) of Python, in hundredths: the decimal of two places nearest to x
FRound2(x) == BigToInt(RoundShr(BigMulSmall(x.m, 100, 0), -x.e, FALSE))

\* numpy.rint(x)
FRint(x) == BigToInt(RoundShr(x.m, -x.e, FALSE))

Sign(n) == IF n < 0 THEN -1 ELSE 1
Abs(n) == IF n < 0 THEN -n ELSE n

\* round(n / Scale, 2) on floats, as a multiple of Scale / 100
Round2(n) ==
    IF n = 0 THEN 0 ELSE Sign(n) * FRound2(ToDouble(Abs(n))) * (Scale \div 100)

\* round((n / Scale) * 100, 2) on floats
RoundPercent(n) ==
    IF n = 0 THEN 0
    ELSE Sign(n) * FRound2(FMul100(ToDouble(Abs(n)))) * (Scale \div 100)

\* round(((n / Scale) / 100) * 100, 2) on floats
RoundScaledPercent(n) ==
    IF n = 0 THEN 0
    ELSE Sign(n) * FRound2(FMul100(FDiv100(ToDouble(Abs(n))))) * (Scale \div 100)

\* Series.round(2) of pandas: numpy.rint(x * 100) / 100
SeriesRound2(n) ==
    IF n = 0 THEN 0
    ELSE Sign(n) * FRint(FMul100(ToDouble(Abs(n)))) * (Scale \div 100)

(***************************************************************************)
(* The intermediate CSV files.  A file is missing, empty (no header), or a *)
(* table: a header and rows, each row a dict from column name to cell.     *)
(***************************************************************************)
MissingFile == [kind |-> "missing", rows |-> << >>]
EmptyFile == [kind |-> "empty", rows |-> << >>]
Table(rows) == [kind |-> "table", rows |-> rows]

\* the strings pandas.read_csv reads as NaN
NaValues == {"", "#N/A", "#N/A N/A", "#NA", "-1.#IND", "-1.#QNAN", "-NaN",
             "-nan", "1.#IND", "1.#QNAN", "<NA>", "N/A", "NA", "NULL", "NaN",
             "None", "n/a", "nan", "null"}

\* DataFrame.to_csv: the text written for one value
ToCsv(v) ==
    CASE v.kind = "none" -> Str("")
      [] v.kind = "nan" -> Str("")
      [] OTHER -> v

\* pandas.read_csv: the value read from one cell of a one-row table
FromCsv(c) == IF c.kind = "str" /\ c.s \in NaValues THEN NaN ELSE c

\* the provider's answers
ProviderError == [kind |-> "error", info |-> << >>, rows |-> << >>]
EmptySeries == [kind |-> "empty", info |-> << >>, rows |-> << >>]
InfoOk(info) == [kind |-> "ok", info |-> info, rows |-> << >>]
SeriesOk(rows) == [kind |-> "ok", info |-> << >>, rows |-> rows]

\* fetch_stock_info: the dict data built from stock.info; the columns that
\* process_stock_data never reads (ticker, fiftyTwoWeekHigh, ...) are left out
InfoData(info, ticker) ==
    [k \in {"longName", "shortName", "currentPrice", "regularMarketPrice",
            "dividendYield", "yield", "sector", "category"} |->
        CASE k = "longName" ->
                 Get(info, "longName", Get(info, "shortName", Str(ticker)))
          [] k = "shortName" -> Get(info, "shortName", Str(ticker))
          [] k = "currentPrice" ->
                 Get(info, "currentPrice", Get(info, "regularMarketPrice", Num(0)))
          [] k = "regularMarketPrice" -> Get(info, "regularMarketPrice", Num(0))
          [] k = "dividendYield" ->
                 Get(info, "dividendYield", Get(info, "yield", Num(0)))
          [] k = "yield" -> Get(info, "yield", Get(info, "dividendYield", Num(0)))
          [] k = "sector" -> Get(info, "sector", Str(""))
          [] k = "category" -> Get(info, "category", Str(""))]

\* fetch_stock_info: the info file after the call; an error leaves it as it was
fetch_stock_info(resp, ticker, old) ==
    IF resp.kind = "ok"
    THEN LET data == InfoData(resp.info, ticker)
         IN  Table(<<[k \in DOMAIN data |-> ToCsv(data[k])]>>)
    ELSE old

\* parse_csv: the first record of the file, or None
parse_csv(file) ==
    IF file.kind = "table" /\ Len(file.rows) > 0
    THEN [found |-> TRUE,
          data |-> [k \in DOMAIN file.rows[1] |-> FromCsv(file.rows[1][k])]]
    ELSE [found |-> FALSE, data |-> << >>]

\* the field process_stock_data takes the price from
PriceField(data) ==
    IF "currentPrice" \in DOMAIN data /\ Truthy(data["currentPrice"])
    THEN data["currentPrice"]
    ELSE IF "regularMarketPrice" \in DOMAIN data /\ Truthy(data["regularMarketPrice"])
    THEN data["regularMarketPrice"]
    ELSE Num(0)

\* the field process_stock_data takes the yield from
YieldField(data) ==
    IF "dividendYield" \in DOMAIN data /\ Truthy(data["dividendYield"])
    THEN data["dividendYield"]
    ELSE IF "yield" \in DOMAIN data /\ Truthy(data["yield"])
    THEN data["yield"]
    ELSE Num(0)

\* float(v) raises ValueError
FloatRaises(v) == v.kind \notin {"num", "nan"}

\* round(price, 2) of a float that may be nan
RoundCell(v) == IF v.kind = "num" THEN Num(Round2(v.n)) ELSE NaN

\* "if yield_val > 1: yield_val = yield_val / 100", then round(yield_val * 100, 2)
YieldPercentNoRule(f) == IF f.kind = "num" THEN Num(RoundPercent(f.n)) ELSE NaN

YieldPercentFromOne(f) ==
    IF f.kind # "num" THEN NaN
    ELSE IF f.n >= Scale THEN Num(RoundScaledPercent(f.n))
    ELSE Num(RoundPercent(f.n))

YieldPercent(f) ==
    IF f.kind # "num" THEN NaN
    ELSE IF f.n > Scale THEN Num(RoundScaledPercent(f.n))
    ELSE Num(RoundPercent(f.n))

\* str(v) of a name field: a name read from the file is text, or nan when empty
StrOf(v) ==
    CASE v.kind = "str" -> v.s
      [] v.kind = "nan" -> "nan"

\* process_stock_data: None, an escaping ValueError, or the result dict
process_stock_data(file, ticker, is_reit) ==
    LET parsed == parse_csv(file)
        data == parsed.data
    IN  IF ~parsed.found THEN [status |-> "none"]
        ELSE IF FloatRaises(PriceField(data)) \/ FloatRaises(YieldField(data))
        THEN [status |-> "raise"]
        ELSE [status |-> "ok",
              result |->
                [ticker |-> ticker,
                 name |-> StrOf(Get(data, "longName",
                                    Get(data, "shortName", Str(ticker)))),
                 price |-> RoundCell(PriceField(data)),
                 yield |-> YieldPercent(YieldField(data)),
                 sector |-> Get(data, "sector",
                                IF is_reit THEN Str("Real Estate") ELSE None),
                 category |-> Get(data, "category",
                                  IF is_reit THEN None ELSE Str("ETF"))]]

(***************************************************************************)
(* History files.  A row is a dict with the columns Date and Close; a date *)
(* is the ordinal of its ISO string, whose text order is the date order.   *)
(***************************************************************************)
\* fetch_historical_data: the history file after the call
HistWriteAppend(old, rows) == Table(old.rows \o rows)

HistWrite(old, rows) == Table(rows)

fetch_historical_data(resp, old) ==
    IF resp.kind = "ok" /\ Len(resp.rows) > 0 THEN HistWrite(old, resp.rows) ELSE old

\* DataFrame.sort_values('Date') on the rows of a small frame: insertion sort
RECURSIVE InsertRow(_, _)
InsertRow(row, sorted) ==
    IF sorted = << >> THEN <<row>>
    ELSE IF row["Date"] < Head(sorted)["Date"] THEN <<row>> \o sorted
    ELSE <<Head(sorted)>> \o InsertRow(row, Tail(sorted))

RECURSIVE SortRows(_)
SortRows(rows) ==
    IF rows = << >> THEN << >>
    ELSE InsertRow(rows[Len(rows)], SortRows(SubSeq(rows, 1, Len(rows) - 1)))

NoSort(rows) == rows

sort_values(rows) == SortRows(rows)

NoHistory == [dates |-> << >>, prices |-> << >>]

\* get_history_data: the dates and prices of the file, or empty lists on any error
get_history_data(file) ==
    IF file.kind # "table" THEN NoHistory
    ELSE IF \E i \in 1..Len(file.rows) : DOMAIN file.rows[i] # {"Date", "Close"}
    THEN NoHistory
    ELSE LET df == sort_values(file.rows)
         IN  [dates |-> [i \in 1..Len(df) |-> df[i]["Date"]],
              prices |-> [i \in 1..Len(df) |-> SeriesRound2(df[i]["Close"])]]

(***************************************************************************)
(* calculate_next_update.  A datetime is its day of the month, the number  *)
(* of days of that month, its weekday (0 = Monday) and its hour and        *)
(* minute; replace() keeps month and year.                                 *)
(***************************************************************************)
Raised == [status |-> "raise"]

\* datetime.replace(day=d): ValueError when the month has no day d
ReplaceDay(dt, d) ==
    IF d > dt.dim THEN Raised
    ELSE [status |-> "ok",
          dt |-> [dt EXCEPT !.day = d,
                            !.weekday = (dt.weekday + (d - dt.day)) % 7]]

calculate_next_update(now) ==
    LET base == [status |-> "ok", dt |-> [now EXCEPT !.hour = 21, !.minute = 0]]
        moved == IF now.hour >= 21 THEN ReplaceDay(base.dt, now.day + 1) ELSE base
    IN  IF moved.status = "raise" THEN Raised
        ELSE IF moved.dt.weekday = 5 THEN ReplaceDay(moved.dt, moved.dt.day + 2)
        ELSE IF moved.dt.weekday = 6 THEN ReplaceDay(moved.dt, moved.dt.day + 1)
        ELSE moved

(***************************************************************************)
(* main(): the configuration and the steps of one invocation.              *)
(***************************************************************************)
REIT_TICKERS == SubSeq(<<"AGNC", "NLY", "ARR", "ORC", "TWO">>, 1, NumReit)
ETF_TICKERS ==
    SubSeq(<<"JEPI", "QYLD", "XYLD", "DIVO", "SPYD", "SDIV", "PGX", "SPHD",
             "DRIP", "REM", "MORT", "IWM", "EWZ", "HDVB">>, 1, NumEtf)

Tickers == {REIT_TICKERS[i] : i \in 1..Len(REIT_TICKERS)}
               \cup {ETF_TICKERS[i] : i \in 1..Len(ETF_TICKERS)}

\* a JSON file of DATA_DIR: the invocation that wrote it last (0: none did)
Unwritten == [by |-> 0, content |-> << >>]
NoOutput == [f \in {"reits.json", "etfs.json", "reit_histories.json",
                    "etf_histories.json", "last_update.json"} |-> Unwritten]

\* main: "if hist['dates']: histories[ticker] = hist"; a dict keeps insertion order
HistoriesPut(m, ticker, hist) ==
    IF hist.dates # << >>
    THEN m \o <<[ticker |-> ticker, dates |-> hist.dates, prices |-> hist.prices]>>
    ELSE m

\* main: "if data: snapshots.append(data)"
SnapshotsPut(list, r) == IF r.status = "ok" THEN Append(list, r.result) ELSE list

\* the loop of main at position idx of tickers moves on, or ends and main goes to `after`
LoopNext(tickers, after) ==
    IF idx < Len(tickers)
    THEN /\ idx' = idx + 1
         /\ pc' = pc
    ELSE /\ idx' = 1
         /\ pc' = after

\* for ticker in REIT_TICKERS: fetch_stock_info(ticker); fetch_historical_data(ticker)
FetchReit ==
    /\ pc = "fetch_reits"
    /\ LET t == REIT_TICKERS[idx]
       IN  /\ infoFile' = [infoFile EXCEPT ![t] = fetch_stock_info(infoResp[t], t, @)]
           /\ histFile' = [histFile EXCEPT ![t] = fetch_historical_data(histResp[t], @)]
    /\ LoopNext(REIT_TICKERS, "fetch_etfs")
    /\ UNCHANGED <<run, lastRun, infoResp, histResp, reits, etfs, reit_histories,
                   etf_histories, outFiles, prevOut, arg, ret>>

\* for ticker in ETF_TICKERS: fetch_stock_info(ticker); fetch_historical_data(ticker)
FetchEtf ==
    /\ pc = "fetch_etfs"
    /\ LET t == ETF_TICKERS[idx]
       IN  /\ infoFile' = [infoFile EXCEPT ![t] = fetch_stock_info(infoResp[t], t, @)]
           /\ histFile' = [histFile EXCEPT ![t] = fetch_historical_data(histResp[t], @)]
    /\ LoopNext(ETF_TICKERS, "process_reits")
    /\ UNCHANGED <<run, lastRun, infoResp, histResp, reits, etfs, reit_histories,
                   etf_histories, outFiles, prevOut, arg, ret>>

\* for ticker in REIT_TICKERS: data = process_stock_data(ticker, is_reit=True)
ProcessReit ==
    /\ pc = "process_reits"
    /\ LET t == REIT_TICKERS[idx]
           r == process_stock_data(infoFile[t], t, TRUE)
       IN  IF r.status = "raise"
           THEN /\ pc' = "crashed"
                /\ UNCHANGED <<idx, reits>>
           ELSE /\ reits' = SnapshotsPut(reits, r)
                /\ LoopNext(REIT_TICKERS, "process_etfs")
    /\ UNCHANGED <<run, lastRun, infoFile, histFile, infoResp, histResp, etfs,
                   reit_histories, etf_histories, outFiles, prevOut, arg, ret>>

\* for ticker in ETF_TICKERS: data = process_stock_data(ticker, is_reit=False)
ProcessEtf ==
    /\ pc = "process_etfs"
    /\ LET t == ETF_TICKERS[idx]
           r == process_stock_data(infoFile[t], t, FALSE)
       IN  IF r.status = "raise"
           THEN /\ pc' = "crashed"
                /\ UNCHANGED <<idx, etfs>>
           ELSE /\ etfs' = SnapshotsPut(etfs, r)
                /\ LoopNext(ETF_TICKERS, "hist_reits")
    /\ UNCHANGED <<run, lastRun, infoFile, histFile, infoResp, histResp, reits,
                   reit_histories, etf_histories, outFiles, prevOut, arg, ret>>

\* for ticker in REIT_TICKERS: hist = get_history_data(ticker)
HistReit ==
    /\ pc = "hist_reits"
    /\ LET t == REIT_TICKERS[idx]
       IN  reit_histories' = HistoriesPut(reit_histories, t, get_history_data(histFile[t]))
    /\ LoopNext(REIT_TICKERS, "hist_etfs")
    /\ UNCHANGED <<run, lastRun, infoFile, histFile, infoResp, histResp, reits,
                   etfs, etf_histories, outFiles, prevOut, arg, ret>>

\* for ticker in ETF_TICKERS: hist = get_history_data(ticker)
HistEtf ==
    /\ pc = "hist_etfs"
    /\ LET t == ETF_TICKERS[idx]
       IN  etf_histories' = HistoriesPut(etf_histories, t, get_history_data(histFile[t]))
    /\ LoopNext(ETF_TICKERS, "save")
    /\ UNCHANGED <<run, lastRun, infoFile, histFile, infoResp, histResp, reits,
                   etfs, reit_histories, outFiles, prevOut, arg, ret>>

\* the four json.dump calls of the snapshot lists and histories mappings
Save ==
    /\ pc = "save"
    /\ outFiles' = [outFiles EXCEPT
                      !["reits.json"] = [by |-> run, content |-> reits],
                      !["etfs.json"] = [by |-> run, content |-> etfs],
                      !["reit_histories.json"] = [by |-> run, content |-> reit_histories],
                      !["etf_histories.json"] = [by |-> run, content |-> etf_histories]]
    /\ pc' = "stamp"
    /\ UNCHANGED <<idx, run, lastRun, infoFile, histFile, infoResp, histResp,
                   reits, etfs, reit_histories, etf_histories, prevOut, arg, ret>>

\* a datetime.now()
Moment(weekday, day, dim, hour, minute) ==
    [weekday |-> weekday, day |-> day, dim |-> dim, hour |-> hour,
     minute |-> minute, monthsOn |-> 0]

\* the clock one minute after dt, carried into the next hour, day and month
Tick(dt) ==
    IF dt.minute < 59 THEN [dt EXCEPT !.minute = dt.minute + 1]
    ELSE IF dt.hour < 23 THEN [dt EXCEPT !.minute = 0, !.hour = dt.hour + 1]
    ELSE [dt EXCEPT !.minute = 0,
                    !.hour = 0,
                    !.weekday = (dt.weekday + 1) % 7,
                    !.day = IF dt.day < dt.dim THEN dt.day + 1 ELSE 1,
                    !.monthsOn = IF dt.day < dt.dim THEN dt.monthsOn ELSE dt.monthsOn + 1]

\* what a later datetime.now() of the same step may read: the clock has not
\* moved on to the next minute, or it has
LaterReads(first) == {first, Tick(first)}

\* the times calculate_next_update reads when the pipeline is run: Wednesday the
\* 15th 20:59, Wednesday the 31st 21:30
RunTimes == {Moment(2, 15, 31, 20, 59), Moment(2, 31, 31, 21, 30)}

\* next_update = calculate_next_update(), which reads the clock; last_update_data
\* takes lastUpdate from a second datetime.now(); json.dump(last_update_data)
Stamp ==
    /\ pc = "stamp"
    /\ \E now \in RunTimes :
          LET next_update == calculate_next_update(now)
          IN  IF next_update.status = "raise"
              THEN /\ pc' = "crashed"
                   /\ UNCHANGED outFiles
              ELSE /\ pc' = "done"
                   /\ \E last_update \in LaterReads(now) :
                         outFiles' = [outFiles EXCEPT !["last_update.json"] =
                            [by |-> run,
                             content |-> <<[lastUpdate |-> last_update,
                                            autoUpdateEnabled |-> TRUE,
                                            nextScheduledUpdate |-> next_update.dt,
                                            schedule |->
                                               [days |-> "Monday-Friday",
                                                time |-> "9:00 PM UTC",
                                                description |->
                                                   "1 hour after US market close"]]>>]]
    /\ UNCHANGED <<idx, run, lastRun, infoFile, histFile, infoResp, histResp,
                   reits, etfs, reit_histories, etf_histories, prevOut, arg, ret>>

\* the scheduler invokes main() again, with the provider answering as before
Rerun ==
    /\ pc \in {"done", "crashed"}
    /\ run < lastRun
    /\ run' = run + 1
    /\ prevOut' = outFiles
    /\ pc' = "fetch_reits"
    /\ idx' = 1
    /\ reits' = << >>
    /\ etfs' = << >>
    /\ reit_histories' = << >>
    /\ etf_histories' = << >>
    /\ UNCHANGED <<lastRun, infoFile, histFile, infoResp, histResp, outFiles, arg, ret>>

(***************************************************************************)
(* The environment of the pipeline: what DATA_DIR holds before the first   *)
(* invocation and what the provider answers for each ticker.               *)
(***************************************************************************)
Row(fields) == MkDict(fields)

\* a record with the columns of an info file, in the order name, short name,
\* current price, regular market price, dividend yield, yield, sector, category
InfoRow(ln, sn, cp, rmp, dy, y, sec, cat) ==
    Row([longName |-> ln, shortName |-> sn, currentPrice |-> cp,
         regularMarketPrice |-> rmp, dividendYield |-> dy, yield |-> y,
         sector |-> sec, category |-> cat])

\* an info file left by an earlier invocation: price 9.87, yield 0.1432 (a fraction)
StaleInfo ==
    Table(<<InfoRow(Str("Stale Name"), Str("STALE"), Num(987000), Num(987000),
                    Num(14320), Num(14320), Str("Financial Services"), Str(""))>>)

\* an info file whose price column holds text
BadPriceInfo ==
    Table(<<InfoRow(Str("Bad Price"), Str("BAD"), Str("abc"), Num(0),
                    Num(5000), Num(5000), Str(""), Str(""))>>)

\* stock.info of a healthy ticker: price 12.5, yield given as the percentage 12.34
FreshInfo ==
    InfoRow(Str("Fresh Name"), Str("FRESH"), Num(1250000), Absent,
            Num(1234000), Absent, Absent, Str("Derivative Income"))

HistRow(date, close) == [Date |-> date, Close |-> close]

\* a history file left by an earlier invocation
StaleSeries == <<HistRow(1, 981230), HistRow(2, 987000)>>

\* stock.history() of a healthy ticker
FreshSeries == <<HistRow(2, 1237500), HistRow(3, 1250000)>>

InfoCaches == {MissingFile, StaleInfo, BadPriceInfo}
HistCaches == {MissingFile, Table(StaleSeries)}
InfoResps == {ProviderError, InfoOk(FreshInfo)}
HistResps == {ProviderError, EmptySeries, SeriesOk(FreshSeries)}

MainStart ==
    /\ pc = "fetch_reits"
    /\ idx = 1
    /\ run = 1
    /\ reits = << >>
    /\ etfs = << >>
    /\ reit_histories = << >>
    /\ etf_histories = << >>
    /\ outFiles = NoOutput
    /\ prevOut = NoOutput
    /\ arg = << >>
    /\ ret = << >>

\* one invocation of main(), from any DATA_DIR and with any provider answers
Init ==
    /\ MainStart
    /\ lastRun = 1
    /\ infoFile \in [Tickers -> InfoCaches]
    /\ histFile \in [Tickers -> HistCaches]
    /\ infoResp \in [Tickers -> InfoResps]
    /\ histResp \in [Tickers -> HistResps]

Next ==
    \/ FetchReit
    \/ FetchEtf
    \/ ProcessReit
    \/ ProcessEtf
    \/ HistReit
    \/ HistEtf
    \/ Save
    \/ Stamp

Spec == Init /\ [][Next]_vars

\* the caches and answers the two-invocation runs draw from, per ticker
RerunEnvs ==
    {[infoFile |-> c[1], histFile |-> c[2], infoResp |-> r[1], histResp |-> r[2]] :
        c \in {<<MissingFile, MissingFile>>, <<StaleInfo, Table(StaleSeries)>>,
               <<BadPriceInfo, Table(StaleSeries)>>},
        r \in {<<ProviderError, ProviderError>>, <<InfoOk(FreshInfo), EmptySeries>>,
               <<InfoOk(FreshInfo), SeriesOk(FreshSeries)>>}}

\* two invocations of main() in a row, the provider answering the same both times
InitRerun ==
    /\ MainStart
    /\ lastRun = 2
    /\ \E env \in [Tickers -> RerunEnvs] :
          /\ infoFile = [t \in Tickers |-> env[t].infoFile]
          /\ histFile = [t \in Tickers |-> env[t].histFile]
          /\ infoResp = [t \in Tickers |-> env[t].infoResp]
          /\ histResp = [t \in Tickers |-> env[t].histResp]

NextRerun ==
    \/ FetchReit
    \/ FetchEtf
    \/ ProcessReit
    \/ ProcessEtf
    \/ HistReit
    \/ HistEtf
    \/ Save
    \/ Stamp
    \/ Rerun

SpecRerun == InitRerun /\ [][NextRerun]_vars

(***************************************************************************)
(* The functions taken alone, each over a set of inputs.                   *)
(***************************************************************************)
Idle ==
    /\ idx = 0
    /\ run = 0
    /\ lastRun = 0
    /\ infoFile = << >>
    /\ histFile = << >>
    /\ infoResp = << >>
    /\ histResp = << >>
    /\ reits = << >>
    /\ etfs = << >>
    /\ reit_histories = << >>
    /\ etf_histories = << >>
    /\ outFiles = NoOutput
    /\ prevOut = NoOutput

\* every weekday, every day of a month of 28 to 31 days, every hour
AllMoments ==
    {Moment(w, d, dim, h, m) :
        w \in 0..6, d \in 1..31, dim \in 28..31, h \in 0..23, m \in {0, 59}}

InitSched ==
    /\ Idle
    /\ pc = "calculate_next_update"
    /\ arg \in {now \in AllMoments : now.day <= now.dim}
    /\ ret = << >>

\* calculate_next_update() called at the time arg
CalcNextUpdate ==
    /\ pc = "calculate_next_update"
    /\ ret' = calculate_next_update(arg)
    /\ pc' = "returned"
    /\ UNCHANGED <<arg, pipelineVars>>

NextSched == CalcNextUpdate

SpecSched == InitSched /\ [][NextSched]_vars

\* the cells an intermediate info file may hold, column by column
PriceCells == {Absent, Str(""), Str("abc"), Num(0), Num(1250000), Num(12500),
               Num(37500), Num(-300000)}
FallbackPriceCells == {Absent, Num(0), Num(987000)}
YieldCells == {Absent, Str(""), Str("abc"), Num(0), Num(5000), Num(12346),
               Num(100000), Num(150000), Num(156500), Num(1234600), Num(10000000),
               Num(15000000), Num(-5000)}
FallbackYieldCells == {Absent, Num(0), Num(3000), Num(725000)}
SectorCells == {Absent, Str(""), Str("Financial Services")}
CategoryCells == {Absent, Str(""), Str("Derivative Income")}
LongNameCells == {Absent, Str(""), Str("AGNC Investment Corp.")}
ShortNameCells == {Absent, Str("AGNC Investment")}

InfoFiles ==
    {MissingFile, EmptyFile, Table(<< >>)} \cup
    {Table(<<InfoRow(ln, Absent, cp, rmp, dy, y, sec, cat)>>) :
        ln \in LongNameCells, cp \in PriceCells, rmp \in FallbackPriceCells,
        dy \in YieldCells, y \in FallbackYieldCells, sec \in SectorCells,
        cat \in CategoryCells}

\* the fields stock.info may hold
Infos ==
    {InfoRow(ln, sn, cp, rmp, dy, y, sec, cat) :
        ln \in {Absent, Str("AGNC Investment Corp.")}, sn \in ShortNameCells,
        cp \in {Absent, None, Num(1250000)}, rmp \in {Absent, Num(987000)},
        dy \in {Absent, Num(5000), Num(1234600)}, y \in {Absent, Num(3000)},
        sec \in {Absent, None, Str("Financial Services"), Str("N/A")},
        cat \in {Absent, Str("Derivative Income")}}

\* either a file left in DATA_DIR and a failing fetch, or no file and a fetch that succeeds
InitNorm ==
    /\ Idle
    /\ pc = "fetch_stock_info"
    /\ \E is_reit \in BOOLEAN :
          \/ \E file \in InfoFiles :
                arg = [ticker |-> "AGNC", is_reit |-> is_reit,
                       resp |-> ProviderError, file |-> file]
          \/ \E info \in Infos :
                arg = [ticker |-> "AGNC", is_reit |-> is_reit,
                       resp |-> InfoOk(info), file |-> MissingFile]
    /\ ret = << >>

\* fetch_stock_info(ticker)
NormFetch ==
    /\ pc = "fetch_stock_info"
    /\ arg' = [arg EXCEPT !.file = fetch_stock_info(arg.resp, arg.ticker, @)]
    /\ pc' = "process_stock_data"
    /\ UNCHANGED <<ret, pipelineVars>>

\* process_stock_data(ticker, is_reit)
NormProcess ==
    /\ pc = "process_stock_data"
    /\ ret' = process_stock_data(arg.file, arg.ticker, arg.is_reit)
    /\ pc' = "returned"
    /\ UNCHANGED <<arg, pipelineVars>>

NextNorm ==
    \/ NormFetch
    \/ NormProcess

SpecNorm == InitNorm /\ [][NextNorm]_vars

\* the raw history files: rows in any order, dates repeated, a column missing
CloseValues == {1234440, 1237500}

RECURSIVE SeqsUpTo(_, _)
SeqsUpTo(S, n) ==
    IF n = 0 THEN {<< >>}
    ELSE LET shorter == SeqsUpTo(S, n - 1)
         IN  shorter \cup {Append(q, x) : q \in {r \in shorter : Len(r) = n - 1}, x \in S}

HistFiles ==
    {MissingFile, EmptyFile, Table(<<[Date |-> 1]>>)} \cup
    {Table(rows) :
        rows \in SeqsUpTo({HistRow(d, c) : d \in 1..MaxDate, c \in CloseValues}, MaxRows)}

InitHist ==
    /\ Idle
    /\ pc = "get_history_data"
    /\ arg \in HistFiles
    /\ ret = << >>

\* hist = get_history_data(ticker); if hist['dates']: histories[ticker] = hist
GetHistory ==
    /\ pc = "get_history_data"
    /\ LET hist == get_history_data(arg)
       IN  ret' = [hist |-> hist, histories |-> HistoriesPut(<< >>, "AGNC", hist)]
    /\ pc' = "returned"
    /\ UNCHANGED <<arg, pipelineVars>>

NextHist == GetHistory

SpecHist == InitHist /\ [][NextHist]_vars

(***************************************************************************)
(* Properties.                                                             *)
(***************************************************************************)
\* the days from today to the scheduled day: none on a weekday before 21:00,
\* else up to the first Monday-to-Friday day after today
DaysAhead(now) ==
    IF now.weekday < 5 /\ now.hour < 21 THEN 0
    ELSE CHOOSE k \in 1..3 :
            /\ (now.weekday + k) % 7 < 5
            /\ \A j \in 1..(k - 1) : (now.weekday + j) % 7 >= 5

\* the calendar day k days after dt, k at most the length of a month
AddDays(dt, k) ==
    [dt EXCEPT !.day = IF dt.day + k > dt.dim THEN dt.day + k - dt.dim ELSE dt.day + k,
               !.monthsOn = IF dt.day + k > dt.dim THEN 1 ELSE 0,
               !.weekday = (dt.weekday + k) % 7]

\* C1: for every current time, calculate_next_update returns 21:00:00 of today
\* when today is Monday-Friday and the hour is below 21, else 21:00:00 of the
\* first Monday-Friday calendar day after today.
C1_NextWeekdayEvening ==
    pc = "returned" =>
        /\ ret.status = "ok"
        /\ ret.dt = AddDays([arg EXCEPT !.hour = 21, !.minute = 0], DaysAhead(arg))

JsonFiles == DOMAIN NoOutput
ListFiles == JsonFiles \ {"last_update.json"}

\* C2: a run of main always completes: no exception escapes it, and at its end
\* it has written all five output files.
C2_MainCompletes ==
    /\ pc # "crashed"
    /\ pc = "done" => \A f \in JsonFiles : outFiles[f].by = run

\* the tickers with an entry in a list of snapshots or of histories
TickersIn(list) == {list[i].ticker : i \in 1..Len(list)}

\* the intermediate snapshot record is missing, empty or unparseable
Unparseable(file) ==
    LET parsed == parse_csv(file)
    IN  \/ ~parsed.found
        \/ PriceField(parsed.data).kind = "str"
        \/ YieldField(parsed.data).kind = "str"

\* the two processing loops of main have run to their end
ProcessedAll ==
    \/ pc \in {"hist_reits", "hist_etfs", "save", "stamp", "done"}
    \/ pc = "crashed" /\ outFiles["reits.json"].by = run

\* C3: a ticker whose intermediate snapshot record is missing, empty or
\* unparseable (a non-numeric price or yield included) gets no entry in the
\* snapshot list, and the processing loops still process every later ticker.
C3_UnparseableSkipped ==
    /\ pc = "crashed" => ProcessedAll
    /\ ProcessedAll =>
          \A t \in Tickers :
             Unparseable(infoFile[t]) <=> t \notin TickersIn(reits \o etfs)

\* C4: whatever DATA_DIR held before the run, a ticker whose history fetch in
\* this run failed or returned an empty series has no key in the histories
\* mappings this run writes.
C4_NoHistoryWithoutFetch ==
    outFiles["reit_histories.json"].by = run =>
        \A t \in Tickers :
           histResp[t].kind # "ok" =>
              t \notin TickersIn(outFiles["reit_histories.json"].content
                                    \o outFiles["etf_histories.json"].content)

\* C5: whatever DATA_DIR held before the run, the snapshot lists this run writes
\* hold an entry for a ticker only if its snapshot fetch succeeded in this run.
C5_NoSnapshotWithoutFetch ==
    outFiles["reits.json"].by = run =>
        \A t \in Tickers :
           infoResp[t].kind # "ok" =>
              t \notin TickersIn(outFiles["reits.json"].content
                                    \o outFiles["etfs.json"].content)

\* the chosen raw yield of C6 and C9: the dividend-yield field when present and
\* non-zero, else the generic yield field, else 0
ChosenYield(data) ==
    IF "dividendYield" \in DOMAIN data /\ data["dividendYield"] # Num(0)
    THEN data["dividendYield"]
    ELSE IF "yield" \in DOMAIN data THEN data["yield"]
    ELSE Num(0)

\* the raw price: the current-price field when present and non-zero, else the
\* regular-market-price field, else 0
ChosenPrice(data) ==
    IF "currentPrice" \in DOMAIN data /\ data["currentPrice"] # Num(0)
    THEN data["currentPrice"]
    ELSE IF "regularMarketPrice" \in DOMAIN data THEN data["regularMarketPrice"]
    ELSE Num(0)

\* process_stock_data has returned an entry for the record the file holds
Emitted == pc = "returned" /\ ret.status = "ok"
RawData == parse_csv(arg.file).data

\* C6 as stated: the stored yield is round(f*100, 2) when f <= 1.0 and
\* round(f, 2) when f > 1.0, and 0 when no yield field is present or both are zero.
C6_YieldIsRoundOfF ==
    Emitted =>
        LET f == ChosenYield(RawData)
        IN  /\ f.kind = "num" /\ f.n <= Scale =>
                  ret.result.yield = Num(RoundPercent(f.n))
            /\ f.kind = "num" /\ f.n > Scale =>
                  ret.result.yield = Num(Round2(f.n))
            /\ f = Num(0) => ret.result.yield = Num(0)

\* C6, amended: the stored yield is round(f*100, 2) when f <= 1.0 and
\* round((f/100)*100, 2) when f > 1.0, which is within 0.01 of round(f, 2); it is
\* 0 when no yield field is present or both are zero.
C6_YieldIsRoundOfScaledF ==
    Emitted =>
        LET f == ChosenYield(RawData)
        IN  /\ f.kind = "num" /\ f.n <= Scale =>
                  ret.result.yield = Num(RoundPercent(f.n))
            /\ f.kind = "num" /\ f.n > Scale =>
                  /\ ret.result.yield = Num(RoundScaledPercent(f.n))
                  /\ Abs(ret.result.yield.n - Round2(f.n)) <= Scale \div 100
            /\ f = Num(0) => ret.result.yield = Num(0)

\* C6, witness: an entry whose raw yield is above 1.0 and lies on a rounding tie
\* that the division and multiplication by 100 move: 1.565 is stored as 1.57
C6_TieReached ==
    /\ Emitted
    /\ ChosenYield(RawData) = Num(156500)
    /\ ret.result.yield = Num(157000)
    /\ Round2(156500) = 156000

\* C7: two runs with identical provider responses leave identical content in
\* reits.json, etfs.json, reit_histories.json and etf_histories.json, whatever
\* DATA_DIR held before the first.
C7_RerunIdentical ==
    run = 2 /\ pc \in {"done", "crashed"} =>
        \A f \in ListFiles : outFiles[f].content = prevOut[f].content

\* C7, witness: a second run has ended after writing snapshots and histories,
\* some from this run's fetches and some from files that predate the first run
C7_RerunDone ==
    /\ run = 2
    /\ pc = "done"
    /\ \A f \in ListFiles : outFiles[f].by = 2 /\ prevOut[f].by = 1
    /\ \E t \in Tickers :
          /\ infoResp[t].kind = "error"
          /\ histResp[t].kind # "ok"
          /\ t \in TickersIn(outFiles["reits.json"].content)
          /\ t \in TickersIn(outFiles["reit_histories.json"].content)
    /\ \E t \in Tickers :
          /\ infoResp[t].kind = "ok"
          /\ histResp[t].kind = "ok"
          /\ t \in TickersIn(outFiles["reits.json"].content \o outFiles["etfs.json"].content)

\* a history entry has as many dates as prices, the dates in non-decreasing order
Aligned(h) ==
    /\ Len(h.dates) = Len(h.prices)
    /\ \A i, j \in 1..Len(h.dates) : i < j => h.dates[i] <= h.dates[j]

\* C8: every history entry get_history_data returns, and every entry written to a
\* histories mapping, has dates and prices of equal length and dates in
\* non-decreasing order, whatever the raw file holds.
C8_SeriesAligned ==
    pc = "returned" =>
        /\ Aligned(ret.hist)
        /\ \A i \in 1..Len(ret.histories) : Aligned(ret.histories[i])

\* C8, witness: an entry was compiled from a file whose rows were out of order
\* and repeated a date
C8_UnorderedCompiled ==
    /\ pc = "returned"
    /\ Len(ret.histories) = 1
    /\ \E i \in 1..(Len(arg.rows) - 1) : arg.rows[i]["Date"] > arg.rows[i + 1]["Date"]
    /\ \E i, j \in 1..Len(arg.rows) : i # j /\ arg.rows[i]["Date"] = arg.rows[j]["Date"]

\* C9 as stated: every emitted entry has 0 <= yield <= 100 and price >= 0.
C9_AlwaysInRange ==
    Emitted =>
        /\ ret.result.yield.kind = "num"
        /\ ret.result.yield.n >= 0
        /\ ret.result.yield.n <= 100 * Scale
        /\ ret.result.price.kind = "num"
        /\ ret.result.price.n >= 0

\* C9, amended: an emitted entry has 0 <= yield <= 100 when the raw yield is a
\* number from 0 to 100, and price >= 0 when the raw price is a number >= 0.
C9_InRangeForInRangeInput ==
    Emitted =>
        LET f == ChosenYield(RawData)
            p == ChosenPrice(RawData)
        IN  /\ f.kind = "num" /\ f.n >= 0 /\ f.n <= 100 * Scale =>
                  /\ ret.result.yield.kind = "num"
                  /\ ret.result.yield.n >= 0
                  /\ ret.result.yield.n <= 100 * Scale
            /\ p.kind = "num" /\ p.n >= 0 =>
                  /\ ret.result.price.kind = "num"
                  /\ ret.result.price.n >= 0

\* C9, witness: an entry whose raw yield was given as a percentage above 1
C9_PercentageNormalized ==
    /\ Emitted
    /\ ChosenYield(RawData) = Num(1234600)
    /\ ret.result.yield = Num(1235000)
    /\ ChosenPrice(RawData) = Num(12500)
    /\ ret.result.price = Num(12000)

\* C10: after fetch and normalize, a ticker whose provider snapshot has no sector
\* has sector "Real Estate" when REIT-class and null otherwise, one with no
\* category has category "ETF" when ETF-class and null otherwise, and a field the
\* provider supplies is passed through unchanged.
C10_SectorCategoryDefaults ==
    Emitted /\ arg.resp.kind = "ok" =>
        LET info == arg.resp.info
        IN  /\ ret.result.sector =
                  Get(info, "sector", IF arg.is_reit THEN Str("Real Estate") ELSE None)
            /\ ret.result.category =
                  Get(info, "category", IF arg.is_reit THEN None ELSE Str("ETF"))

====
